---- MODULE Spec2Model ----
(***************************************************************************)
(* Model of misconfig-auto-remediator (src/main.py).                       *)
(*                                                                         *)
(* Python objects are modelled with their identity: a dict or a list is an *)
(* entry of `heap`, and a value that names one is a reference to it, so    *)
(* the assignment of line 114 stores the finding's own object in the       *)
(* configuration, as it does in Python. Scalars are tagged values. Strings *)
(* (paths, keys, string scalars) are tuples of one-character strings, so   *)
(* that str.split and the `in` operator are computed, not assumed.         *)
(***************************************************************************)
EXTENDS Integers, Sequences, FiniteSets, TLC

VARIABLES
    pc,           \* position of main(): line about to run
    args,         \* parsed command line: dry_run, backup, output_file
    fs,           \* the file system: file name -> content, or Absent
    heap,         \* Python dicts and lists, by object identity
    config,       \* main's `config`: a value (usually a reference to the root dict)
    config_type,  \* "yaml" or "json"
    report,       \* main's `report`, as loaded
    findings,     \* main's `misconfigurations`: the list of line 177
    idx,          \* position of the loop of lines 181-182
    pass,         \* 1: the pass of main; 2: the same list applied again
    outcomes,     \* what remediate_misconfiguration logged, one entry per call
    lastWriter,   \* slot <<object, key>> -> position in the list of the finding that last assigned it
    firstResult,  \* the document as it stood when the first pass ended
    printed       \* what main printed on stdout (dry run)

vars == <<pc, args, fs, heap, config, config_type, report, findings, idx, pass,
          outcomes, lastWriter, firstResult, printed>>

----------------------------------------------------------------------------
(* Bounds *)

\* longest report of the engine specification (SpecApply)
MaxFindings == 3
\* longest report of the whole-run specification (Spec)
MaxReport == 1

----------------------------------------------------------------------------
(* Python values *)

IntV(n)  == [t |-> "int", v |-> n]
StrV(s)  == [t |-> "str", v |-> s]
BoolV(b) == [t |-> "bool", v |-> b]
NoneV    == [t |-> "none", v |-> 0]
RefV(o)  == [t |-> "ref", v |-> o]
\* literals, as they stand in a file, before loading
Map(f)  == [t |-> "map", v |-> f]
List(s) == [t |-> "seq", v |-> s]

\* the keys the code looks up: "path", "suggested_value", "misconfigurations"
PathKey == <<"p", "a", "t", "h">>
SuggestedValueKey ==
    <<"s", "u", "g", "g", "e", "s", "t", "e", "d", "_", "v", "a", "l", "u", "e">>
MisconfigurationsKey ==
    <<"m", "i", "s", "c", "o", "n", "f", "i", "g", "u", "r", "a", "t", "i", "o", "n", "s">>

Absent == [t |-> "absent", v |-> 0]
EmptyHeap == [o \in {} |-> NoneV]
NoFields == [k \in {} |-> NoneV]

\* bool(x): Python truthiness, used by `not path` and `not suggested_value`
Truthy(h, x) ==
    CASE x.t = "int"  -> x.v # 0
      [] x.t = "str"  -> Len(x.v) > 0
      [] x.t = "bool" -> x.v
      [] x.t = "none" -> FALSE
      [] x.t = "ref"  -> IF h[x.v].t = "map" THEN DOMAIN h[x.v].v # {}
                         ELSE Len(h[x.v].v) > 0

\* str.split("."): the segments between the dots, empty ones included
RECURSIVE Split(_)
Split(s) ==
    IF \A i \in 1..Len(s) : s[i] # "."
    THEN <<s>>
    ELSE LET i == CHOOSE i \in 1..Len(s) :
                      s[i] = "." /\ \A j \in 1..(i - 1) : s[j] # "."
         IN <<SubSeq(s, 1, i - 1)>> \o Split(SubSeq(s, i + 1, Len(s)))

\* `sub in s` for two strings
IsSubstring(sub, s) ==
    \E i \in 0..(Len(s) - Len(sub)) : SubSeq(s, i + 1, i + Len(sub)) = sub

\* `key in current`: "yes", "no", or the TypeError of a non-container
In(h, key, current) ==
    CASE current.t = "ref" ->
            IF h[current.v].t = "map"
            THEN IF key \in DOMAIN h[current.v].v THEN "yes" ELSE "no"
            ELSE IF \E i \in 1..Len(h[current.v].v) : h[current.v].v[i] = StrV(key)
                 THEN "yes" ELSE "no"
      [] current.t = "str" -> IF IsSubstring(key, current.v) THEN "yes" ELSE "no"
      [] OTHER -> "TypeError"

\* current[key] for a string key: the value under a key of a dict; a list or a
\* string raises TypeError (their indices are integers), a missing key KeyError
GetItem(h, current, key) ==
    IF current.t = "ref" /\ h[current.v].t = "map" /\ key \in DOMAIN h[current.v].v
    THEN [st |-> "ok", val |-> h[current.v].v[key]]
    ELSE [st |-> "raise", val |-> NoneV]

IsDict(h, x) == x.t = "ref" /\ h[x.v].t = "map"
IsList(h, x) == x.t = "ref" /\ h[x.v].t = "seq"

\* m.get(key) of a dict m: None when the key is absent
Get(h, m, key) == IF key \in DOMAIN h[m.v].v THEN h[m.v].v[key] ELSE NoneV

----------------------------------------------------------------------------
(* Loading: a literal becomes objects of the heap *)

RECURSIVE Build(_, _)
RECURSIVE BuildItems(_, _, _, _)
Build(h, lit) ==
    IF lit.t \notin {"map", "seq"}
    THEN [heap |-> h, val |-> lit]
    ELSE LET o == Cardinality(DOMAIN h) + 1
             h1 == h @@ (o :> [t |-> lit.t, v |-> lit.v])
         IN [heap |-> BuildItems(h1, o, lit, DOMAIN lit.v), val |-> RefV(o)]
BuildItems(h, o, lit, ks) ==
    IF ks = {} THEN h
    ELSE LET k == CHOOSE k \in ks : TRUE
             b == Build(h, lit.v[k])
         IN BuildItems([b.heap EXCEPT ![o].v[k] = b.val], o, lit, ks \ {k})

\* the structural value of x: references followed, identity forgotten
RECURSIVE Deep(_, _)
Deep(h, x) ==
    IF x.t # "ref" THEN x
    ELSE [t |-> h[x.v].t, v |-> [k \in DOMAIN h[x.v].v |-> Deep(h, h[x.v].v[k])]]

----------------------------------------------------------------------------
(* remediate_misconfiguration, lines 66-123 *)

NoSlot == <<0, <<>>>>

\* line 95: `not path or not suggested_value`
MissingFields(h, path, suggested_value) ==
    ~Truthy(h, path) \/ ~Truthy(h, suggested_value)

\* lines 103-108: descend through every segment but the last
RECURSIVE Walk(_, _, _, _)
Walk(h, current, parts, i) ==
    IF i > Len(parts) - 1 THEN [st |-> "ok", current |-> current]
    ELSE LET c == In(h, parts[i], current)
         IN CASE c = "TypeError" -> [st |-> "error", current |-> current]
              [] c = "no" -> [st |-> "notfound", current |-> current]
              [] c = "yes" ->
                    LET g == GetItem(h, current, parts[i])
                    IN IF g.st # "ok" THEN [st |-> "error", current |-> current]
                       ELSE Walk(h, g.val, parts, i + 1)

\* AssignLeaf with the assignment left out: the change is logged, not made
AssignLeafOmitted(h, o, last_part, suggested_value) == h

\* line 114: current[last_part] = suggested_value (the object itself, no copy)
AssignLeaf(h, o, last_part, suggested_value) ==
    [h EXCEPT ![o].v[last_part] = suggested_value]

\* LeafNotFound that creates the missing key in a mapping before it returns
LeafNotFoundCreates(h, current, last_part, suggested_value) ==
    IF IsDict(h, current)
    THEN [h EXCEPT ![current.v].v = (last_part :> suggested_value) @@ @]
    ELSE h

\* lines 115-117: the last key is not in `current`: warn and return config
LeafNotFound(h, current, last_part, suggested_value) == h

\* a call that left the heap alone, and the line it logged
Skipped(h, kind) ==
    [heap |-> h, kind |-> kind, slot |-> NoSlot, old |-> NoneV, new |-> NoneV]

\* kind is the log line of the call: "changed" (line 113, which prints the old and
\* the new value), "missing" (line 96), "notfound" (lines 107, 116), "error"
\* (line 121, any exception of the body)
remediate_misconfiguration(h, cfg, m) ==
    IF ~IsDict(h, m) THEN Skipped(h, "error")   \* .get of a non-dict: AttributeError
    ELSE
    LET path == Get(h, m, PathKey)
        suggested_value == Get(h, m, SuggestedValueKey)
    IN
    IF MissingFields(h, path, suggested_value) THEN Skipped(h, "missing")
    ELSE IF path.t # "str" THEN Skipped(h, "error")   \* .split of a non-string
    ELSE
    LET parts == Split(path.v)
        w == Walk(h, cfg, parts, 1)
        last_part == parts[Len(parts)]
    IN
    IF w.st # "ok" THEN Skipped(h, w.st)
    ELSE
    LET c == In(h, last_part, w.current)
    IN CASE c = "TypeError" -> Skipped(h, "error")
         [] c = "no" ->
               Skipped(LeafNotFound(h, w.current, last_part, suggested_value),
                       "notfound")
         [] c = "yes" ->
               LET g == GetItem(h, w.current, last_part)   \* read by line 113
               IN IF g.st # "ok" THEN Skipped(h, "error")
                  ELSE [heap |-> AssignLeaf(h, w.current.v, last_part,
                                            suggested_value),
                        kind |-> "changed",
                        slot |-> <<w.current.v, last_part>>,
                        old |-> Deep(h, g.val),
                        new |-> Deep(h, suggested_value)]

----------------------------------------------------------------------------
(* Inputs: the files the tool is run on *)

A == <<"a">>
B == <<"b">>
PathA == <<"a">>
PathAB == <<"a", ".", "b">>
PathBA == <<"b", ".", "a">>

\* {"a": {"b": 0}, "b": "a"}, {"a": {"a": 0}}, {"a": ["b"]}, and the empty document
Documents ==
    { Map((A :> Map(B :> IntV(0))) @@ (B :> StrV(A))),
      Map(A :> Map(A :> IntV(0))),
      Map(A :> List(<<StrV(B)>>)),
      NoneV }

Finding(path, suggested_value) ==
    Map((PathKey :> StrV(path)) @@ (SuggestedValueKey :> suggested_value))

\* entries of report["misconfigurations"]: well-formed ones, one with a falsy
\* suggested_value, one with null, ones without a field, and one that is no mapping
CoreFindings ==
    { Finding(PathA, IntV(1)),
      Finding(PathA, Map(B :> IntV(1))),
      Finding(PathA, List(<<StrV(B)>>)),
      Finding(PathAB, IntV(2)),
      Finding(PathBA, IntV(1)),
      Finding(PathA, IntV(0)),
      Finding(PathA, NoneV),
      Map(PathKey :> StrV(PathA)),
      Map(SuggestedValueKey :> IntV(1)),
      StrV(A) }

\* more of them: other falsy values, a string, an empty path, a path that is a number
Findings ==
    CoreFindings \cup
    { Finding(PathA, Map(NoFields)),
      Finding(PathA, List(<<>>)),
      Finding(PathA, BoolV(FALSE)),
      Finding(PathA, StrV(B)),
      Finding(<<>>, IntV(1)),
      Map((PathKey :> IntV(5)) @@ (SuggestedValueKey :> IntV(1))) }

ReportOf(ms) == Map(MisconfigurationsKey :> List(ms))

Reports(entries, n) ==
    { ReportOf(ms) : ms \in UNION { [1..k -> entries] : k \in 0..n } }

\* a file: the parser that accepts its text ("yaml": PyYAML does, which covers most
\* JSON; "json": only json does; "garbage": neither), the value it parses to, and
\* who wrote it last
File(text, doc) == [text |-> text, doc |-> doc, by |-> "user"]

ConfigFiles ==
    { File(tx, d) : tx \in {"yaml", "json"}, d \in Documents }
        \cup { File("garbage", NoneV) }

ReportFiles(n) ==
    { File("json", r) : r \in Reports(Findings, n) }
        \cup { File("json", List(<<>>)), File("garbage", NoneV) }

\* config_file, report_file, config_file + ".bak", and the -o file
ConfigPath == "config"
ReportPath == "report"
BackupPath == "config.bak"
OutputPath == "out"

----------------------------------------------------------------------------
(* The functions main calls *)

\* load_config that takes a text no parser accepts for an empty document
load_config_lenient(file) ==
    IF file.text = "json" THEN [st |-> "ok", doc |-> file.doc, type |-> "json"]
    ELSE [st |-> "ok", doc |-> file.doc, type |-> "yaml"]

\* lines 27-46: yaml.safe_load first, json.load when it raises YAMLError
load_config(file) ==
    CASE file.text = "yaml" -> [st |-> "ok", doc |-> file.doc, type |-> "yaml"]
      [] file.text = "json" -> [st |-> "ok", doc |-> file.doc, type |-> "json"]
      [] OTHER -> [st |-> "raise", doc |-> NoneV, type |-> "none"]

\* lines 50-63
load_report(file) ==
    IF file.text = "json" THEN [st |-> "ok", doc |-> file.doc]
    ELSE [st |-> "raise", doc |-> NoneV]

\* BackupWanted without the dry-run test
BackupAlways(backup, dry_run) == backup

\* line 171
BackupWanted(backup, dry_run) == backup /\ ~dry_run

\* yaml.dump / json.dump of lines 133-135 and 189-191: the text of the document
Dump(h, cfg, type, who) == [text |-> type, doc |-> Deep(h, cfg), by |-> who]

\* the slot's last writer, 0 when no finding assigned it
WriterOf(lw, slot) == IF slot \in DOMAIN lw THEN lw[slot] ELSE 0

\* the list the loop of line 181 runs over
Misconfigurations == heap[findings.v].v

----------------------------------------------------------------------------
(* main, lines 142-204 *)

NoWriters == [slot \in {} |-> 0]

Arguments ==
    [dry_run : BOOLEAN, backup : BOOLEAN, output_file : {"", OutputPath}]

\* Both files exist (lines 156-162 let the run through); nothing is loaded yet.
Init ==
    /\ pc = "load_config"
    /\ args \in Arguments
    /\ \E cf \in ConfigFiles, rf \in ReportFiles(MaxReport) :
           fs = (ConfigPath :> cf) @@ (ReportPath :> rf)
                  @@ (BackupPath :> Absent) @@ (OutputPath :> Absent)
    /\ heap = EmptyHeap
    /\ config = NoneV
    /\ config_type = "none"
    /\ report = NoneV
    /\ findings = NoneV
    /\ idx = 1
    /\ pass = 1
    /\ outcomes = <<>>
    /\ lastWriter = NoWriters
    /\ firstResult = NoneV
    /\ printed = Absent

\* line 167; an exception is caught at line 200 and the run exits
LoadConfig ==
    /\ pc = "load_config"
    /\ LET r == load_config(fs[ConfigPath])
       IN IF r.st = "ok"
          THEN LET b == Build(EmptyHeap, r.doc)
               IN /\ heap' = b.heap
                  /\ config' = b.val
                  /\ config_type' = r.type
                  /\ pc' = "load_report"
          ELSE /\ pc' = "exit1"
               /\ UNCHANGED <<heap, config, config_type>>
    /\ UNCHANGED <<args, fs, report, findings, idx, pass, outcomes, lastWriter,
                   firstResult, printed>>

\* line 168
LoadReport ==
    /\ pc = "load_report"
    /\ LET r == load_report(fs[ReportPath])
       IN IF r.st = "ok"
          THEN LET b == Build(heap, r.doc)
               IN /\ heap' = b.heap
                  /\ report' = b.val
                  /\ pc' = "backup"
          ELSE /\ pc' = "exit1"
               /\ UNCHANGED <<heap, report>>
    /\ UNCHANGED <<args, fs, config, config_type, findings, idx, pass, outcomes,
                   lastWriter, firstResult, printed>>

\* lines 171-174: shutil.copy2(config_file, config_file + ".bak")
Backup ==
    /\ pc = "backup"
    /\ IF BackupWanted(args.backup, args.dry_run)
       THEN fs' = [fs EXCEPT ![BackupPath] = [fs[ConfigPath] EXCEPT !.by = "tool"]]
       ELSE fs' = fs
    /\ pc' = "get_misconfigurations"
    /\ UNCHANGED <<args, heap, config, config_type, report, findings, idx, pass,
                   outcomes, lastWriter, firstResult, printed>>

\* line 177: report.get("misconfigurations", []); a report that is no dict has
\* no .get, and the AttributeError ends the run at line 200
GetMisconfigurations ==
    /\ pc = "get_misconfigurations"
    /\ IF ~IsDict(heap, report)
       THEN /\ pc' = "exit1"
            /\ UNCHANGED <<heap, findings>>
       ELSE IF MisconfigurationsKey \in DOMAIN heap[report.v].v
            THEN /\ findings' = heap[report.v].v[MisconfigurationsKey]
                 /\ heap' = heap
                 /\ pc' = "remediate"
            ELSE LET b == Build(heap, List(<<>>))
                 IN /\ findings' = b.val
                    /\ heap' = b.heap
                    /\ pc' = "remediate"
    /\ UNCHANGED <<args, fs, config, config_type, report, idx, pass, outcomes,
                   lastWriter, firstResult, printed>>

\* lines 181-182, one turn of the loop: config = remediate_misconfiguration(...)
Remediate ==
    /\ pc = "remediate"
    /\ idx <= Len(Misconfigurations)
    /\ LET r == remediate_misconfiguration(heap, config, Misconfigurations[idx])
       IN /\ heap' = r.heap
          /\ outcomes' = Append(outcomes,
                 [pass |-> pass, finding |-> idx, kind |-> r.kind,
                  slot |-> r.slot, old |-> r.old, new |-> r.new,
                  prev |-> WriterOf(lastWriter, r.slot)])
          /\ lastWriter' = IF r.kind = "changed"
                           THEN (r.slot :> idx) @@ lastWriter
                           ELSE lastWriter
    /\ idx' = idx + 1
    /\ UNCHANGED <<pc, args, fs, config, config_type, report, findings, pass,
                   firstResult, printed>>

\* lines 185-191: dry run, the document is printed
DryRunPrint ==
    /\ pc = "remediate"
    /\ idx > Len(Misconfigurations)
    /\ args.dry_run
    /\ printed' = Dump(heap, config, config_type, "tool")
    /\ pc' = "done"
    /\ UNCHANGED <<args, fs, heap, config, config_type, report, findings, idx,
                   pass, outcomes, lastWriter, firstResult>>

\* lines 192-198: write_config to the -o file, or over the configuration file
WriteConfig ==
    /\ pc = "remediate"
    /\ idx > Len(Misconfigurations)
    /\ ~args.dry_run
    /\ LET output_file_path ==
               IF args.output_file # "" THEN args.output_file ELSE ConfigPath
       IN fs' = [fs EXCEPT ![output_file_path] =
                               Dump(heap, config, config_type, "tool")]
    /\ pc' = "done"
    /\ UNCHANGED <<args, heap, config, config_type, report, findings, idx, pass,
                   outcomes, lastWriter, firstResult, printed>>

Next ==
    \/ LoadConfig
    \/ LoadReport
    \/ Backup
    \/ GetMisconfigurations
    \/ Remediate
    \/ DryRunPrint
    \/ WriteConfig

Spec == Init /\ [][Next]_vars

----------------------------------------------------------------------------
(* The engine alone: the loop of lines 181-182 over a loaded document and    *)
(* report, and the same list applied once more to the result.               *)

\* the state main is in when it reaches line 181
InitApply ==
    /\ pc = "remediate"
    /\ args = [dry_run |-> TRUE, backup |-> FALSE, output_file |-> ""]
    /\ \E d \in Documents, r \in Reports(CoreFindings, MaxFindings) :
         LET c == Build(EmptyHeap, d)
             b == Build(c.heap, r)
         IN /\ fs = (ConfigPath :> File("yaml", d)) @@ (ReportPath :> File("json", r))
                      @@ (BackupPath :> Absent) @@ (OutputPath :> Absent)
            /\ heap = b.heap
            /\ config = c.val
            /\ report = b.val
            /\ findings = b.heap[b.val.v].v[MisconfigurationsKey]
    /\ config_type = "yaml"
    /\ idx = 1
    /\ pass = 1
    /\ outcomes = <<>>
    /\ lastWriter = NoWriters
    /\ firstResult = NoneV
    /\ printed = Absent

\* the first pass is over: the same list is applied to its result
Reapply ==
    /\ pc = "remediate"
    /\ idx > Len(Misconfigurations)
    /\ pass = 1
    /\ pass' = 2
    /\ idx' = 1
    /\ firstResult' = Deep(heap, config)
    /\ UNCHANGED <<pc, args, fs, heap, config, config_type, report, findings,
                   outcomes, lastWriter, printed>>

NextApply ==
    \/ Remediate
    \/ Reapply

SpecApply == InitApply /\ [][NextApply]_vars

----------------------------------------------------------------------------
(* Vocabulary of the properties *)

\* The slot a dotted path names: every segment but the last is a key of a
\* mapping, the last is a key of the mapping reached. NoSlot otherwise.
RECURSIVE ResolveSlot(_, _, _, _)
ResolveSlot(h, current, parts, i) ==
    IF ~IsDict(h, current) THEN NoSlot
    ELSE IF parts[i] \notin DOMAIN h[current.v].v THEN NoSlot
    ELSE IF i = Len(parts) THEN <<current.v, parts[i]>>
    ELSE ResolveSlot(h, h[current.v].v[parts[i]], parts, i + 1)

SlotValue(h, slot) == h[slot[1]].v[slot[2]]

\* a finding that is a mapping with a non-empty string path and a suggested_value
HasFields(h, m) ==
    /\ IsDict(h, m)
    /\ PathKey \in DOMAIN h[m.v].v
    /\ SuggestedValueKey \in DOMAIN h[m.v].v
    /\ h[m.v].v[PathKey].t = "str"
    /\ Len(h[m.v].v[PathKey].v) > 0

PartsOf(h, m) == Split(h[m.v].v[PathKey].v)
ValueOf(h, m) == h[m.v].v[SuggestedValueKey]

\* the slot the finding names in h, NoSlot when it names none
SlotOf(h, m) ==
    IF HasFields(h, m) THEN ResolveSlot(h, config, PartsOf(h, m), 1) ELSE NoSlot

\* this step is one call of remediate_misconfiguration, on Misconfigurations[idx]
Call == outcomes' # outcomes
Last(s) == s[Len(s)]
Applied(o) == o.kind = "changed"
FirstPassOver == pc = "remediate" /\ pass = 1 /\ idx > Len(Misconfigurations)
SecondPassOver == pc = "remediate" /\ pass = 2 /\ idx > Len(Misconfigurations)
Untouched == \A f \in DOMAIN fs : fs[f] = Absent \/ fs[f].by = "user"
IsPrefix(p, q) == Len(p) <= Len(q) /\ SubSeq(q, 1, Len(p)) = p

----------------------------------------------------------------------------
(* Properties *)

\* C1: a finding whose path resolves to an existing leaf has its suggested_value
\* stored at that leaf by the call, whatever the suggested_value is (scalar,
\* null, mapping or sequence, empty ones included).
C1_ResolvingFindingIsApplied ==
    [][Call =>
         LET m == Misconfigurations[idx]
         IN SlotOf(heap, m) # NoSlot =>
                SlotValue(heap', SlotOf(heap, m)) = ValueOf(heap, m)]_vars

\* C2: a finding that is skipped or fails never stops the pass: the loop goes on
\* to the next finding, and a later finding whose path resolves when it is
\* reached is applied.
C2_FailureIsolation ==
    [][Call =>
         /\ pc' = "remediate"
         /\ idx' = idx + 1
         /\ LET m == Misconfigurations[idx]
            IN (/\ \E n \in 1..Len(outcomes) :
                      outcomes[n].pass = pass /\ ~Applied(outcomes[n])
                /\ SlotOf(heap, m) # NoSlot)
               => /\ Applied(Last(outcomes'))
                  /\ SlotValue(heap', SlotOf(heap, m)) = ValueOf(heap, m)]_vars

\* C3: a call that does not apply its finding leaves the document structurally
\* as it was.
C3_NotAppliedLeavesDocument ==
    [][(Call /\ ~Applied(Last(outcomes'))) =>
           /\ config' = config
           /\ Deep(heap', config') = Deep(heap, config)]_vars

C3_Witness ==
    /\ \E n \in 1..Len(outcomes) : outcomes[n].kind = "missing"
    /\ \E n \in 1..Len(outcomes) : outcomes[n].kind = "notfound"
    /\ \E n \in 1..Len(outcomes) : outcomes[n].kind = "error"

\* C4: applying the list to the result of applying it yields a document
\* structurally equal to the result of the first pass.
C4_DocumentIdempotent ==
    SecondPassOver => Deep(heap, config) = firstResult

C6_NoKeyAddedOrRemoved ==
    [][Call =>
         /\ config' = config
         /\ DOMAIN heap' = DOMAIN heap
         /\ \A o \in DOMAIN heap :
                /\ heap'[o].t = heap[o].t
                /\ DOMAIN heap'[o].v = DOMAIN heap[o].v
         /\ Applied(Last(outcomes')) =>
                /\ IsDict(heap, RefV(Last(outcomes').slot[1]))
                /\ Last(outcomes').slot[2] \in DOMAIN heap[Last(outcomes').slot[1]].v
                /\ \A o \in DOMAIN heap : \A k \in DOMAIN heap[o].v :
                       <<o, k>> # Last(outcomes').slot => heap'[o].v[k] = heap[o].v[k]]_vars

C6_Witness ==
    /\ SecondPassOver
    /\ \E n \in 1..Len(outcomes) :
           Applied(outcomes[n]) /\ outcomes[n].new.t = "map"
    /\ \E n \in 1..Len(outcomes) : outcomes[n].kind = "notfound"

\* the findings of the running pass that were applied before this call
AppliedBefore == { n \in 1..Len(outcomes) : outcomes[n].pass = pass /\ Applied(outcomes[n]) }
\* the outcomes of the pass a state is in
AppliedNow(outs, ps) == { n \in 1..Len(outs) : outs[n].pass = ps /\ Applied(outs[n]) }
FindingOf(n) == Misconfigurations[outcomes[n].finding]
IsStructured(h, x) == IsDict(h, x) \/ IsList(h, x)
ProperPrefix(p, q) == Len(p) < Len(q) /\ SubSeq(q, 1, Len(p)) = p
Rest(p, q) == SubSeq(q, Len(p) + 1, Len(q))
PassEnds == idx' > Len(Misconfigurations)

C8_FindingsNeverMutated ==
    pc = "remediate" => Deep(heap, report) = fs[ReportPath].doc

\* C9: a configuration text that is neither valid YAML nor valid JSON ends the
\* run before any finding is applied and before any file is touched: no backup,
\* no output file, the configuration file as it was.
C9_LoadFailureTouchesNothing ==
    fs[ConfigPath].text = "garbage" =>
        /\ pc \in {"load_config", "exit1"}
        /\ outcomes = <<>>
        /\ Untouched
        /\ fs[BackupPath] = Absent
        /\ fs[OutputPath] = Absent
        /\ printed = Absent

C9_Witness ==
    /\ pc = "exit1"
    /\ fs[ConfigPath].text = "garbage"
    /\ args.backup /\ ~args.dry_run
    /\ fs[ReportPath].text = "json"

\* C10: in dry-run mode no file is created or modified, whatever the other
\* options: no backup, no output file, the configuration file as it was; the
\* remediated document is printed.
C10_DryRunWritesNothing ==
    args.dry_run =>
        /\ Untouched
        /\ fs[BackupPath] = Absent
        /\ fs[OutputPath] = Absent
        /\ pc = "done" => printed = Dump(heap, config, config_type, "tool")

C10_Witness ==
    /\ pc = "done"
    /\ args.dry_run /\ args.backup /\ args.output_file # ""
    /\ \E n \in 1..Len(outcomes) : Applied(outcomes[n])
    /\ printed # Absent
    /\ printed.doc # fs[ConfigPath].doc

====
